---- MODULE Spec2Model ----
(***************************************************************************)
(* Model of the Google Search paid-ads conversion report endpoint:         *)
(* the serverless handler (src/unnamed/part_000), the Firebase wrapper     *)
(* (src/utils/artufirebaserealtimedatabase.js) and the error / e-mail      *)
(* helpers (src/utils/common.js).                                          *)
(*                                                                         *)
(* One invocation of the handler is a process whose position (pc) is the   *)
(* await it is suspended at.  Every action is the synchronous code that    *)
(* runs between two awaits.  The outcomes of the remote parties (OAuth     *)
(* endpoint, query endpoint, Firebase, Mailgun) are chosen with \E.        *)
(***************************************************************************)
EXTENDS Integers, Sequences, FiniteSets, TLC

(***************************************************************************)
(* Bounds of the model                                                     *)
(***************************************************************************)
MaxTicks == 2
MaxHistory == 3
MaxRecords == 3

(***************************************************************************)
(* Strings are sequences of one-character strings wherever the code looks  *)
(* inside them (timestamps, URLs).                                         *)
(***************************************************************************)
DigitChars == <<"0", "1", "2", "3", "4", "5", "6", "7", "8", "9">>

UpperChars == <<"A", "B", "C", "D", "E", "F", "G", "H", "I", "J", "K", "L", "M", "N", "O", "P", "Q", "R", "S", "T", "U", "V", "W", "X", "Y", "Z">>

LowerChars == <<"a", "b", "c", "d", "e", "f", "g", "h", "i", "j", "k", "l", "m", "n", "o", "p", "q", "r", "s", "t", "u", "v", "w", "x", "y", "z">>

\* the value null of a string-valued field, and a string value
JSNull == [null |-> TRUE, str |-> <<>>]

JSString(s) == [null |-> FALSE, str |-> s]

\* String(n) / template-literal rendering of a non-negative integer
RECURSIVE NumberToString(_)
NumberToString(n) ==
  IF n < 10 THEN <<DigitChars[n + 1]>>
  ELSE NumberToString(n \div 10) \o <<DigitChars[(n % 10) + 1]>>

(***************************************************************************)
(* The clock: new Date() read as local calendar fields.  month is          *)
(* zero-based as Date.prototype.getMonth() returns it.                     *)
(***************************************************************************)
StartDate == [year |-> 2022, month |-> 11, date |-> 30]

IsLeapYear(y) == (y % 4 = 0 /\ y % 100 # 0) \/ y % 400 = 0

DaysInMonth(y, m) ==
  IF m = 1 THEN (IF IsLeapYear(y) THEN 29 ELSE 28)
  ELSE IF m \in {3, 5, 8, 10} THEN 30 ELSE 31

NextDate(d) ==
  IF d.date < DaysInMonth(d.year, d.month)
    THEN [d EXCEPT !.date = d.date + 1]
  ELSE IF d.month < 11
    THEN [d EXCEPT !.month = d.month + 1, !.date = 1]
  ELSE [year |-> d.year + 1, month |-> 0, date |-> 1]

RECURSIVE DateOf(_)
DateOf(n) == IF n = 0 THEN StartDate ELSE NextDate(DateOf(n - 1))

MidnightSuffix == <<"T", "0", "0", ":", "0", "0", ":", "0", "0", ".", "0", "0", "0", "Z">>

\* getNextPreviousRunDateTime(): `${getFullYear()}-${getMonth() + 1}-${getDate()}T00:00:00.000Z`
getNextPreviousRunDateTime(now) ==
  NumberToString(now.year) \o <<"-">> \o NumberToString(now.month + 1)
    \o <<"-">> \o NumberToString(now.date) \o MidnightSuffix

\* the literal '2022-11-22T23:59:59.999Z'
SeedRunDateTime ==
  <<"2", "0", "2", "2", "-", "1", "1", "-", "2", "2", "T", "2", "3", ":", "5", "9", ":", "5", "9", ".", "9", "9", "9", "Z">>

(***************************************************************************)
(* Regular expressions of the handler                                      *)
(***************************************************************************)
RECURSIVE IndexIn(_, _)
IndexIn(c, chars) ==
  IF chars = <<>> THEN 0
  ELSE IF chars[Len(chars)] = c THEN Len(chars)
  ELSE IndexIn(c, SubSeq(chars, 1, Len(chars) - 1))

\* one character under the regex flag i
ToLowerChar(c) ==
  IF IndexIn(c, UpperChars) = 0 THEN c ELSE LowerChars[IndexIn(c, UpperChars)]

ToLowerCase(s) == [k \in 1..Len(s) |-> ToLowerChar(s[k])]

\* pat occurs in s starting at position k
OccursAt(s, k, pat) ==
  /\ k + Len(pat) - 1 <= Len(s)
  /\ \A j \in 1..Len(pat) : s[k + j - 1] = pat[j]

Contains(s, pat) == \E k \in 1..Len(s) : OccursAt(s, k, pat)

HttpGetStarted == <<"h", "t", "t", "p", ":", "/", "/", "g", "e", "t", "s", "t", "a", "r", "t", "e", "d", ".">>

HttpsGetStarted == <<"h", "t", "t", "p", "s", ":", "/", "/", "g", "e", "t", "s", "t", "a", "r", "t", "e", "d", ".">>

\* url.match(/https?:\/\/getstarted\./i) on a string
MatchesGetStarted(s) ==
  \/ Contains(ToLowerCase(s), HttpGetStarted)
  \/ Contains(ToLowerCase(s), HttpsGetStarted)

\* String(status).match(/^2\d+/)
Is2xx(status) ==
  /\ Len(NumberToString(status)) >= 2
  /\ NumberToString(status)[1] = "2"

(***************************************************************************)
(* Records of the query response                                           *)
(***************************************************************************)
UrlGetStarted == <<"H", "T", "T", "P", ":", "/", "/", "G", "e", "t", "S", "t", "a", "r", "t", "e", "d", ".", "a", "a", "u">>

UrlApply == <<"h", "t", "t", "p", "s", ":", "/", "/", "a", "p", "p", "l", "y", ".", "a", "a", "u">>

UrlValues == {JSString(UrlGetStarted), JSString(UrlApply), JSNull}

OpportunityIds == {"oppA", "oppB"}

ClickIds == {"gclid1", "gclid2"}

\* the parent Opportunity a Lead_Post__c record points at
OpportunityOf(opp) ==
  IF opp = "oppA"
    THEN [StageName |-> "Applied", Application_Date__c |-> "2022-12-02"]
    ELSE [StageName |-> "Accepted", Application_Date__c |-> "2022-12-01"]

\* the fields the query selects that the handler reads
LeadPost(id, gclid, opp, url) ==
  [Id |-> id, URL_GCLID__c |-> gclid, Opportunity__c |-> opp,
   URL_Details__c |-> url, Opportunity__r |-> OpportunityOf(opp)]

RecordShapes == ClickIds \X OpportunityIds \X UrlValues

\* every result list of length n; the k-th record has Id k
ResultsOfLength(n) ==
  { [k \in 1..n |-> LeadPost(k, f[k][1], f[k][2], f[k][3])] : f \in [1..n -> RecordShapes] }

AllResults == UNION { ResultsOfLength(n) : n \in 0..MaxRecords }

\* the result lists the end-to-end runs are driven with
SampleResults ==
  { <<>>,
    <<LeadPost(1, "gclid1", "oppA", JSString(UrlApply))>>,
    <<LeadPost(1, "gclid1", "oppA", JSString(UrlGetStarted)),
      LeadPost(2, "gclid2", "oppA", JSString(UrlApply))>>,
    <<LeadPost(1, "gclid1", "oppB", JSNull)>> }

(***************************************************************************)
(* Post-processing of the query result (handler, lines 160-220)            *)
(***************************************************************************)
\* FilterUnique without uniqueOpportunities.push(opportunityId)
FilterUniqueNoPush(records, uniqueOpportunities) == records

\* the callback of queryResults['records'].filter with its uniqueOpportunities
RECURSIVE FilterUnique(_, _)
FilterUnique(records, uniqueOpportunities) ==
  IF records = <<>> THEN <<>>
  ELSE IF \E k \in 1..Len(uniqueOpportunities) :
            uniqueOpportunities[k] = Head(records).Opportunity__c
    THEN FilterUnique(Tail(records), uniqueOpportunities)
    ELSE <<Head(records)>> \o
         FilterUnique(Tail(records), Append(uniqueOpportunities, Head(records).Opportunity__c))

UniqueConversions(records) == FilterUnique(records, <<>>)

\* url.match(...) on a null url raises a TypeError
FinalDataThrows(conversions) ==
  \E k \in 1..Len(conversions) : conversions[k].URL_Details__c.null

IsMantraLead(conversion) == MatchesGetStarted(conversion.URL_Details__c.str)

FinalData(conversions) ==
  SelectSeq(conversions, LAMBDA conversion : ~IsMantraLead(conversion))

\* the argument of parser.parse(...)
ParserInput(unique, final) == unique

CsvHeader == <<"Google Click ID", "Stage Name", "Application Date">>

CsvRow(r) ==
  <<r.URL_GCLID__c, r.Opportunity__r.StageName, r.Opportunity__r.Application_Date__c>>

\* new Parser(opts).parse(data): a header line, then one line per record
ParseCsv(data) == <<CsvHeader>> \o [k \in 1..Len(data) |-> CsvRow(data[k])]

\* NoConversionsMsg as the encoding of an empty list: the header row alone
NoConversionsMsgEmptyCsv == ParseCsv(<<>>)

NoConversionsMsg == << <<"No conversions for this run">> >>

\* queryResults.totalSize; undefined (falsy) on a body that is not a query result
TotalSize(data) == IF "totalSize" \in DOMAIN data THEN data.totalSize ELSE 0

(***************************************************************************)
(* ArtuFirebaseRealTimeDatabase and the watermark helpers                  *)
(***************************************************************************)
NoData == [exists |-> FALSE, val |-> [lastRunDateTimes |-> <<>>]]

\* readData(): the snapshot value, or null when there is none or get() rejects
readData(db, getOk) ==
  IF getOk /\ db.exists THEN [null |-> FALSE, val |-> db.val]
  ELSE [null |-> TRUE, val |-> NoData.val]

\* createData appending the new timestamp to the stored list in a transaction
createDataMerging(db, dataObj, setOk) ==
  IF setOk /\ db.exists
    THEN [exists |-> TRUE,
          val |-> [lastRunDateTimes |->
            Append(db.val.lastRunDateTimes,
                   dataObj.lastRunDateTimes[Len(dataObj.lastRunDateTimes)])]]
  ELSE IF setOk THEN [exists |-> TRUE, val |-> dataObj]
  ELSE db

\* createData(): set() replaces the value at the path; a rejection is logged
createData(db, dataObj, setOk) ==
  IF setOk THEN [exists |-> TRUE, val |-> dataObj] ELSE db

\* getRunDateTimes with a seed at midnight instead of the end of the day
getRunDateTimesMidnightSeed(data) ==
  IF data.null THEN <<SubSeq(SeedRunDateTime, 1, 10) \o MidnightSuffix>>
  ELSE data.val.lastRunDateTimes

getRunDateTimes(data) ==
  IF data.null THEN <<SeedRunDateTime>> ELSE data.val.lastRunDateTimes

\* NewRunDateTimes without newRunDateTimes.push(nextPreviousRunDateTime)
NewRunDateTimesNoPush(all, next) == [lastRunDateTimes |-> all]

\* the dataObj setNextPreviousRunDateTime() hands to createData()
NewRunDateTimes(all, next) == [lastRunDateTimes |-> Append(all, next)]

(***************************************************************************)
(* Requests, responses and errors                                          *)
(***************************************************************************)
\* process.env.MARKETING_API_KEY and process.env.MARKETING_API_KEY_UAT
MARKETING_API_KEY == "key-prod"

MARKETING_API_KEY_UAT == "key-uat"

\* req.method, req.query and what handleApiError reads of req.url
Requests ==
  [method : {"GET", "OPTIONS"},
   Authorization : {MARKETING_API_KEY, MARKETING_API_KEY_UAT, "wrong-key", ""},
   sfdcEnvironment : {"uat", "prod"},
   requestType : {"googleSearchAdsConversions", "facebookAdsConversions"},
   urlHasSlicktextwebhook : BOOLEAN]

IsUAT(requestPayload) == requestPayload.sfdcEnvironment = "uat"

MarketingApiKey(requestPayload) ==
  IF IsUAT(requestPayload) THEN MARKETING_API_KEY_UAT ELSE MARKETING_API_KEY

\* Authorized accepting the key of either environment
AuthorizedEitherKey(requestPayload) ==
  requestPayload.Authorization \in {MARKETING_API_KEY, MARKETING_API_KEY_UAT}

\* requestPayload[AUTHORIZATION] === marketingApiKey
Authorized(requestPayload) ==
  requestPayload.Authorization = MarketingApiKey(requestPayload)

\* what axios settles with: an HTTP response, or no response at all
\* (connection failure, or a url it cannot request)
HttpResponse(status, data) == [kind |-> "response", status |-> status, data |-> data]

NoResponse == [kind |-> "noResponse", status |-> 0, data |-> [message |-> "no response"]]

\* AxiosResolves with validateStatus accepting every status
AxiosResolvesAnyStatus(outcome) == outcome.kind = "response"

\* axios resolves on a response of status 200..299 and rejects otherwise
AxiosResolves(outcome) ==
  outcome.kind = "response" /\ outcome.status >= 200 /\ outcome.status < 300

TokenBody == [access_token |-> "token", instance_url |-> "https://sfdc", token_type |-> "Bearer"]

ErrorBody == [message |-> "upstream error"]

OAuthOutcomes ==
  {HttpResponse(200, TokenBody), HttpResponse(400, ErrorBody), NoResponse}

QueryBody(records) == [totalSize |-> Len(records), records |-> records]

QueryOutcomes(results) ==
  {HttpResponse(200, QueryBody(r)) : r \in results}
    \cup {HttpResponse(400, ErrorBody), HttpResponse(500, ErrorBody), NoResponse}

\* NullUrlOutcomes with a server answering the request for a null url
NullUrlOutcomesAnswered == {NoResponse, HttpResponse(200, ErrorBody)}

\* axios called with url null: there is nothing to request, the promise
\* rejects without a response
NullUrlOutcomes == {NoResponse}

QueryUrl == "https://sfdc/services/data/v52.0/query/"

NullUrl == "null"

\* errors the catch block of the handler receives
NoError == [name |-> "none", hasResponse |-> FALSE, status |-> 0]

MarketingApiAuthorizationError ==
  [name |-> "MarketingApiAuthorizationError", hasResponse |-> FALSE, status |-> 0]

TypeError == [name |-> "TypeError", hasResponse |-> FALSE, status |-> 0]

HeadersSentError == [name |-> "ERR_HTTP_HEADERS_SENT", hasResponse |-> FALSE, status |-> 0]

AxiosError(outcome) ==
  [name |-> "AxiosError", hasResponse |-> outcome.kind = "response", status |-> outcome.status]

\* handleApiError: error.response ? error.response.status : 500, and 200 for
\* any url matching /slicktextwebhook/i
ErrorStatusCode(error, request) ==
  IF request.urlHasSlicktextwebhook THEN 200
  ELSE IF error.hasResponse THEN error.status ELSE 500

NoResponseSent == [sent |-> FALSE, status |-> 0, body |-> "none"]

\* the first send on a response object is the one the caller observes
Send(response, status, body) ==
  IF response.sent THEN response
  ELSE [sent |-> TRUE, status |-> status, body |-> body]

ReportMail(lower, upper, text) ==
  [kind |-> "report", from |-> "svu@academyart.edu", to |-> "stevedvu@gmail.com",
   lower |-> lower, upper |-> upper, text |-> text]

ErrorMail(error) ==
  [kind |-> "error", from |-> "stevedvu@gmail.com", to |-> "svu@academyart.edu",
   lower |-> <<>>, upper |-> <<>>, text |-> << <<error.name>> >>]

(***************************************************************************)
(* State                                                                   *)
(***************************************************************************)
Invocations == {1, 2}

VARIABLES
  store,                    \* the document at GoogleSearchPaidAdsReportRunDates
  day,                      \* days elapsed on the clock since StartDate
  lastOk,                   \* the most recent run answered with {success: true}
  pc,                       \* the await each invocation is suspended at
  req,                      \* its request
  storeAtStart,             \* the store when the request arrived
  allRunDateTimes,          \* locals of the handler
  nextPreviousRunDateTime,
  apiUrl,
  apiResponse,
  uniqueConversions,
  finalData,
  emailMsg,
  err,                      \* the error handleApiError was called with
  res,                      \* the response the caller observes
  calls,                    \* the outbound calls of the run, in order
  settled,                  \* how the awaited calls of the run settled
  outbox                    \* the messages handed to Mailgun in the run

vars == <<store, day, lastOk, pc, req, storeAtStart, allRunDateTimes,
          nextPreviousRunDateTime, apiUrl, apiResponse, uniqueConversions,
          finalData, emailMsg, err, res, calls, settled, outbox>>

locals == <<allRunDateTimes, nextPreviousRunDateTime, apiUrl, apiResponse,
            uniqueConversions, finalData, emailMsg>>

NoRequest ==
  [method |-> "GET", Authorization |-> "", sfdcEnvironment |-> "prod",
   requestType |-> "googleSearchAdsConversions", urlHasSlicktextwebhook |-> FALSE]

NoLastOk == [any |-> FALSE, upperBound |-> <<>>, committed |-> FALSE]

Init ==
  /\ store = NoData
  /\ day = 0
  /\ lastOk = NoLastOk
  /\ pc = [i \in Invocations |-> "idle"]
  /\ req = [i \in Invocations |-> NoRequest]
  /\ storeAtStart = [i \in Invocations |-> NoData]
  /\ allRunDateTimes = [i \in Invocations |-> <<>>]
  /\ nextPreviousRunDateTime = [i \in Invocations |-> <<>>]
  /\ apiUrl = [i \in Invocations |-> NullUrl]
  /\ apiResponse = [i \in Invocations |-> NoResponse]
  /\ uniqueConversions = [i \in Invocations |-> <<>>]
  /\ finalData = [i \in Invocations |-> <<>>]
  /\ emailMsg = [i \in Invocations |-> <<>>]
  /\ err = [i \in Invocations |-> NoError]
  /\ res = [i \in Invocations |-> NoResponseSent]
  /\ calls = [i \in Invocations |-> <<>>]
  /\ settled = [i \in Invocations |-> <<>>]
  /\ outbox = [i \in Invocations |-> <<>>]

\* one settled call: ok is "an HTTP response arrived" for axios, "the promise
\* resolved" for Firebase and Mailgun
Reply(call, ok, status) == [call |-> call, ok |-> ok, status |-> status]

Settle(i, call, ok, status) ==
  settled' = [settled EXCEPT ![i] = Append(settled[i], Reply(call, ok, status))]

PersistedHistory == IF store.exists THEN store.val.lastRunDateTimes ELSE <<>>

\* catch (err) { handleApiError(err, ...) }: the error e-mail is handed to
\* Mailgun; the response is sent once that promise has settled
HandleApiError(i, error, callsSoFar) ==
  /\ err' = [err EXCEPT ![i] = error]
  /\ calls' = [calls EXCEPT ![i] = Append(callsSoFar, "errorEmail")]
  /\ outbox' = [outbox EXCEPT ![i] = Append(outbox[i], ErrorMail(error))]
  /\ pc' = [pc EXCEPT ![i] = "awaitErrorEmail"]

\* the clock moves on to the next day
Tick ==
  /\ day < MaxTicks
  /\ day' = day + 1
  /\ UNCHANGED <<store, lastOk, pc, req, storeAtStart, locals, err, res, calls, settled, outbox>>

\* a request out of requests arrives: the handler runs up to its first await
StartWith(i, requests) ==
  /\ pc[i] \in {"idle", "done"}
  /\ Len(PersistedHistory) < MaxHistory
  /\ \E r \in requests :
       /\ req' = [req EXCEPT ![i] = r]
       /\ storeAtStart' = [storeAtStart EXCEPT ![i] = store]
       /\ allRunDateTimes' = [allRunDateTimes EXCEPT ![i] = <<>>]
       /\ nextPreviousRunDateTime' = [nextPreviousRunDateTime EXCEPT ![i] = <<>>]
       /\ apiUrl' = [apiUrl EXCEPT ![i] = NullUrl]
       /\ apiResponse' = [apiResponse EXCEPT ![i] = NoResponse]
       /\ uniqueConversions' = [uniqueConversions EXCEPT ![i] = <<>>]
       /\ finalData' = [finalData EXCEPT ![i] = <<>>]
       /\ emailMsg' = [emailMsg EXCEPT ![i] = <<>>]
       /\ settled' = [settled EXCEPT ![i] = <<>>]
       /\ IF r.method = "OPTIONS"
            THEN /\ res' = [res EXCEPT ![i] = Send(NoResponseSent, 204, "none")]
                 /\ calls' = [calls EXCEPT ![i] = <<>>]
                 /\ outbox' = [outbox EXCEPT ![i] = <<>>]
                 /\ err' = [err EXCEPT ![i] = NoError]
                 /\ pc' = [pc EXCEPT ![i] = "done"]
          ELSE IF Authorized(r)
            THEN /\ res' = [res EXCEPT ![i] = NoResponseSent]
                 /\ calls' = [calls EXCEPT ![i] = <<"oauth">>]
                 /\ outbox' = [outbox EXCEPT ![i] = <<>>]
                 /\ err' = [err EXCEPT ![i] = NoError]
                 /\ pc' = [pc EXCEPT ![i] = "awaitOAuth"]
          ELSE /\ res' = [res EXCEPT ![i] = NoResponseSent]
               /\ err' = [err EXCEPT ![i] = MarketingApiAuthorizationError]
               /\ calls' = [calls EXCEPT ![i] = <<"errorEmail">>]
               /\ outbox' = [outbox EXCEPT ![i] = <<ErrorMail(MarketingApiAuthorizationError)>>]
               /\ pc' = [pc EXCEPT ![i] = "awaitErrorEmail"]
  /\ UNCHANGED <<store, day, lastOk>>

Start(i) == StartWith(i, Requests)

\* requestType === 'googleSearchAdsConversions' (lines 123 and 159)
IsGoogleSearchAds(requestType) == requestType = "googleSearchAdsConversions"

\* ApiUrlFor setting the query url whatever the request type
ApiUrlAlwaysQuery(requestType) == QueryUrl

\* apiUrl stays null unless the branch of line 123 sets it
ApiUrlFor(requestType) ==
  IF IsGoogleSearchAds(requestType) THEN QueryUrl ELSE NullUrl

\* sendEmailThrows without the try/catch around mg.messages.create
sendEmailRethrows(mailOk) == ~mailOk

\* sendEmail() catches the rejection of mg.messages.create and logs it
sendEmailThrows(mailOk) == FALSE

\* the token exchange settles: lines 90-120 and the axios call of line 148
OAuthReturn(i) ==
  /\ pc[i] = "awaitOAuth"
  /\ \E outcome \in OAuthOutcomes :
       /\ Settle(i, "oauth", outcome.kind = "response", outcome.status)
       /\ IF ~AxiosResolves(outcome)
            THEN /\ HandleApiError(i, AxiosError(outcome), calls[i])
                 /\ UNCHANGED <<store, day, lastOk, req, storeAtStart, locals, res>>
          ELSE IF ~Is2xx(outcome.status)
            THEN /\ HandleApiError(i, MarketingApiAuthorizationError, calls[i])
                 /\ UNCHANGED <<store, day, lastOk, req, storeAtStart, locals, res>>
          ELSE /\ calls' = [calls EXCEPT ![i] = Append(calls[i], "readData")]
               /\ pc' = [pc EXCEPT ![i] = "awaitRead"]
               /\ UNCHANGED <<store, day, lastOk, req, storeAtStart, locals, err, res, outbox>>

\* readData() settles: lines 118-154
ReadReturn(i) ==
  /\ pc[i] = "awaitRead"
  /\ \E getOk \in BOOLEAN :
       /\ Settle(i, "readData", getOk, 0)
       /\ allRunDateTimes' =
            [allRunDateTimes EXCEPT ![i] = getRunDateTimes(readData(store, getOk))]
       /\ nextPreviousRunDateTime' =
            [nextPreviousRunDateTime EXCEPT ![i] = getNextPreviousRunDateTime(DateOf(day))]
       /\ apiUrl' = [apiUrl EXCEPT ![i] = ApiUrlFor(req[i].requestType)]
       /\ calls' = [calls EXCEPT ![i] =
            Append(calls[i], IF ApiUrlFor(req[i].requestType) = QueryUrl
                               THEN "query" ELSE "axiosNullUrl")]
       /\ pc' = [pc EXCEPT ![i] = "awaitApi"]
  /\ UNCHANGED <<store, day, lastOk, req, storeAtStart, apiResponse,
                 uniqueConversions, finalData, emailMsg, err, res, outbox>>

\* previousRunDateTime reading the oldest element of the history
previousRunDateTimeOldest(i) == allRunDateTimes[i][1]

\* previousRunDateTime = allRunDateTimes[allRunDateTimes.length - 1]
previousRunDateTime(i) == allRunDateTimes[i][Len(allRunDateTimes[i])]

\* the request of line 148 settles: lines 156-225
ApiReturn(i, results) ==
  /\ pc[i] = "awaitApi"
  /\ \E outcome \in (IF apiUrl[i] = QueryUrl THEN QueryOutcomes(results) ELSE NullUrlOutcomes) :
       /\ Settle(i, calls[i][Len(calls[i])], outcome.kind = "response", outcome.status)
       /\ IF ~AxiosResolves(outcome)
            THEN /\ HandleApiError(i, AxiosError(outcome), calls[i])
                 /\ UNCHANGED <<store, day, lastOk, req, storeAtStart, locals, res>>
          ELSE IF ~IsGoogleSearchAds(req[i].requestType)
            THEN /\ apiResponse' = [apiResponse EXCEPT ![i] = outcome]
                 /\ calls' = [calls EXCEPT ![i] = Append(calls[i], "createData")]
                 /\ pc' = [pc EXCEPT ![i] = "awaitWrite"]
                 /\ UNCHANGED <<store, day, lastOk, req, storeAtStart, allRunDateTimes,
                                nextPreviousRunDateTime, apiUrl, uniqueConversions,
                                finalData, emailMsg, err, res, outbox>>
          ELSE IF TotalSize(outcome.data) = 0
            THEN /\ apiResponse' = [apiResponse EXCEPT ![i] = outcome]
                 /\ emailMsg' = [emailMsg EXCEPT ![i] = NoConversionsMsg]
                 /\ calls' = [calls EXCEPT ![i] = Append(calls[i], "sendEmail")]
                 /\ outbox' = [outbox EXCEPT ![i] = Append(outbox[i],
                      ReportMail(previousRunDateTime(i), nextPreviousRunDateTime[i], NoConversionsMsg))]
                 /\ pc' = [pc EXCEPT ![i] = "awaitEmail"]
                 /\ UNCHANGED <<store, day, lastOk, req, storeAtStart, allRunDateTimes,
                                nextPreviousRunDateTime, apiUrl, uniqueConversions,
                                finalData, err, res>>
          ELSE IF FinalDataThrows(UniqueConversions(outcome.data.records))
            THEN /\ apiResponse' = [apiResponse EXCEPT ![i] = outcome]
                 /\ uniqueConversions' =
                      [uniqueConversions EXCEPT ![i] = UniqueConversions(outcome.data.records)]
                 /\ HandleApiError(i, TypeError, calls[i])
                 /\ UNCHANGED <<store, day, lastOk, req, storeAtStart, allRunDateTimes,
                                nextPreviousRunDateTime, apiUrl, finalData, emailMsg, res>>
          ELSE LET unique == UniqueConversions(outcome.data.records)
                   final == FinalData(unique)
                   csv == ParseCsv(ParserInput(unique, final))
               IN /\ apiResponse' = [apiResponse EXCEPT ![i] = outcome]
                  /\ uniqueConversions' = [uniqueConversions EXCEPT ![i] = unique]
                  /\ finalData' = [finalData EXCEPT ![i] = final]
                  /\ emailMsg' = [emailMsg EXCEPT ![i] = csv]
                  /\ calls' = [calls EXCEPT ![i] = Append(calls[i], "sendEmail")]
                  /\ outbox' = [outbox EXCEPT ![i] = Append(outbox[i],
                       ReportMail(previousRunDateTime(i), nextPreviousRunDateTime[i], csv))]
                  /\ pc' = [pc EXCEPT ![i] = "awaitEmail"]
                  /\ UNCHANGED <<store, day, lastOk, req, storeAtStart, allRunDateTimes,
                                 nextPreviousRunDateTime, apiUrl, err, res>>

\* sendEmail() settles: line 225 up to the set() of createData
EmailReturn(i) ==
  /\ pc[i] = "awaitEmail"
  /\ \E mailOk \in BOOLEAN :
       /\ Settle(i, "sendEmail", mailOk, 0)
       /\ IF sendEmailThrows(mailOk)
            THEN /\ HandleApiError(i, AxiosError(NoResponse), calls[i])
                 /\ UNCHANGED <<store, day, lastOk, req, storeAtStart, locals, res>>
          ELSE /\ calls' = [calls EXCEPT ![i] = Append(calls[i], "createData")]
               /\ pc' = [pc EXCEPT ![i] = "awaitWrite"]
               /\ UNCHANGED <<store, day, lastOk, req, storeAtStart, locals, err, res, outbox>>

\* the set() of createData reaches the store, or fails
StoreSet(i) ==
  /\ pc[i] = "awaitWrite"
  /\ \E setOk \in BOOLEAN :
       /\ Settle(i, "createData", setOk, 0)
       /\ store' = createData(store,
            NewRunDateTimes(allRunDateTimes[i], nextPreviousRunDateTime[i]), setOk)
  /\ pc' = [pc EXCEPT ![i] = "awaitWriteAck"]
  /\ UNCHANGED <<day, lastOk, req, storeAtStart, locals, err, res, calls, outbox>>

\* createData() settles: lines 226-228.  The send of line 228 finds the
\* response already sent: it either raises (caught at line 237) or is ignored.
WriteReturn(i) ==
  /\ pc[i] = "awaitWriteAck"
  /\ \E secondSendThrows \in BOOLEAN :
       /\ res' = [res EXCEPT ![i] = Send(Send(res[i], 200, "{success: true}"),
                                         apiResponse[i].status, "apiResponse.data")]
       /\ lastOk' = [any |-> TRUE, upperBound |-> nextPreviousRunDateTime[i],
                     committed |-> \E k \in 1..Len(settled[i]) :
                       settled[i][k] = Reply("createData", TRUE, 0)]
       /\ IF secondSendThrows
            THEN HandleApiError(i, HeadersSentError, Append(calls[i], "send"))
            ELSE /\ calls' = [calls EXCEPT ![i] = Append(calls[i], "send")]
                 /\ pc' = [pc EXCEPT ![i] = "done"]
                 /\ UNCHANGED <<err, outbox>>
  /\ UNCHANGED <<store, day, req, storeAtStart, locals, settled>>

\* the promise of the error e-mail settles: the finally of handleApiError
ErrorEmailReturn(i) ==
  /\ pc[i] = "awaitErrorEmail"
  /\ \E mailOk \in BOOLEAN :
       /\ Settle(i, "errorEmail", mailOk, 0)
       /\ res' = [res EXCEPT ![i] = Send(res[i], ErrorStatusCode(err[i], req[i]), "errorObj")]
       /\ calls' = [calls EXCEPT ![i] = Append(calls[i], "send")]
       /\ pc' = [pc EXCEPT ![i] = "done"]
  /\ UNCHANGED <<store, day, lastOk, req, storeAtStart, locals, err, outbox>>

Run(i, results) ==
  \/ OAuthReturn(i)
  \/ ReadReturn(i)
  \/ ApiReturn(i, results)
  \/ EmailReturn(i)
  \/ StoreSet(i)
  \/ WriteReturn(i)
  \/ ErrorEmailReturn(i)

\* the scheduler starts a run only when none is in flight
Next ==
  \/ Tick
  \/ Start(1)
  \/ Run(1, SampleResults)

Spec == Init /\ [][Next]_vars

(***************************************************************************)
(* Post-processing over every result list of up to MaxRecords records:     *)
(* a run of the report that is waiting for the answer to its query.        *)
(***************************************************************************)
InitPost ==
  /\ store = NoData
  /\ day = 0
  /\ lastOk = NoLastOk
  /\ pc = [i \in Invocations |-> IF i = 1 THEN "awaitApi" ELSE "idle"]
  /\ \E r \in Requests :
       /\ r.method = "GET"
       /\ Authorized(r)
       /\ IsGoogleSearchAds(r.requestType)
       /\ req = [i \in Invocations |-> IF i = 1 THEN r ELSE NoRequest]
  /\ storeAtStart = [i \in Invocations |-> NoData]
  /\ allRunDateTimes = [i \in Invocations |-> IF i = 1 THEN <<SeedRunDateTime>> ELSE <<>>]
  /\ nextPreviousRunDateTime =
       [i \in Invocations |-> IF i = 1 THEN getNextPreviousRunDateTime(DateOf(0)) ELSE <<>>]
  /\ apiUrl = [i \in Invocations |-> IF i = 1 THEN QueryUrl ELSE NullUrl]
  /\ apiResponse = [i \in Invocations |-> NoResponse]
  /\ uniqueConversions = [i \in Invocations |-> <<>>]
  /\ finalData = [i \in Invocations |-> <<>>]
  /\ emailMsg = [i \in Invocations |-> <<>>]
  /\ err = [i \in Invocations |-> NoError]
  /\ res = [i \in Invocations |-> NoResponseSent]
  /\ calls = [i \in Invocations |-> IF i = 1 THEN <<"oauth", "readData", "query">> ELSE <<>>]
  /\ settled = [i \in Invocations |->
       IF i = 1 THEN <<Reply("oauth", TRUE, 200), Reply("readData", TRUE, 0)>> ELSE <<>>]
  /\ outbox = [i \in Invocations |-> <<>>]

NextPost ==
  \/ ApiReturn(1, AllResults)
  \/ EmailReturn(1)
  \/ StoreSet(1)
  \/ WriteReturn(1)
  \/ ErrorEmailReturn(1)

SpecPost == InitPost /\ [][NextPost]_vars

(***************************************************************************)
(* Overlapping invocations: the platform starts a second run of the report *)
(* while another one is suspended at an await.                             *)
(***************************************************************************)
\* the request of the scheduled report
ReportRequests ==
  {r \in Requests :
     /\ r.method = "GET"
     /\ r.sfdcEnvironment = "prod"
     /\ Authorized(r)
     /\ IsGoogleSearchAds(r.requestType)
     /\ ~r.urlHasSlicktextwebhook}

OverlapResults == { <<>> }

\* the token exchange, the read, the query and Mailgun answer normally: of
\* the calls of a run only the write to the store may fail
OnlyWriteMayFail(i) ==
  \A k \in 1..Len(settled[i]) :
    settled[i][k].call # "createData" =>
      settled[i][k].ok /\ settled[i][k].status \in {0, 200}

NextOverlap ==
  \/ Tick
  \/ \E i \in Invocations : StartWith(i, ReportRequests)
  \/ \E i \in Invocations : Run(i, OverlapResults) /\ OnlyWriteMayFail(i)'

SpecOverlap == Init /\ [][NextOverlap]_vars

(***************************************************************************)
(* Properties                                                              *)
(***************************************************************************)
Has(seq, x) == \E k \in 1..Len(seq) : seq[k] = x

HasReport(box) == \E k \in 1..Len(box) : box[k].kind = "report"

InRun(i) == pc[i] # "idle"

\* the Authorization parameter differs from the key configured for the
\* environment the request names
KeyMismatch(r) ==
  r.Authorization #
    (IF r.sfdcEnvironment = "uat" THEN MARKETING_API_KEY_UAT ELSE MARKETING_API_KEY)

SettledAs(i, call, ok) ==
  \E k \in 1..Len(settled[i]) : settled[i][k].call = call /\ settled[i][k].ok = ok

\* the call got an HTTP response outside 200..299
UpstreamFailure(i, call) ==
  \E k \in 1..Len(settled[i]) :
    /\ settled[i][k].call = call
    /\ settled[i][k].ok
    /\ ~(settled[i][k].status >= 200 /\ settled[i][k].status < 300)

WriteSettled(i) == SettledAs(i, "createData", TRUE) \/ SettledAs(i, "createData", FALSE)

SuccessResponse == [sent |-> TRUE, status |-> 200, body |-> "{success: true}"]

\* the persisted history, an empty store standing for the seed
HistoryOf(db) == IF db.exists THEN db.val.lastRunDateTimes ELSE <<SeedRunDateTime>>

\* C1 as stated: a request whose Authorization parameter differs from the
\* configured key gets a failure response and makes no call at all to the
\* Remote Query Service, the Watermark Store or the Notifier.
C1_NoCallsAtAll ==
  \A i \in Invocations :
    InRun(i) /\ KeyMismatch(req[i]) =>
      /\ \A k \in 1..Len(calls[i]) : calls[i][k] = "send"
      /\ outbox[i] = <<>>
      /\ pc[i] = "done" => res[i].sent /\ res[i].body = "errorObj"

\* C1 amended: a non-OPTIONS request whose Authorization parameter differs
\* from the configured key makes no call to the Remote Query Service or the
\* Watermark Store and sends no report; the error handler hands exactly one
\* error e-mail to the Notifier and then answers with the error object and
\* status 500 (200 when the url mentions slicktextwebhook).
C1_UnauthorizedOnlyErrorEmail ==
  \A i \in Invocations :
    InRun(i) /\ KeyMismatch(req[i]) /\ req[i].method # "OPTIONS" =>
      /\ calls[i] \in {<<"errorEmail">>, <<"errorEmail", "send">>}
      /\ outbox[i] = <<ErrorMail(MarketingApiAuthorizationError)>>
      /\ store = storeAtStart[i]
      /\ pc[i] = "done" =>
           res[i] = [sent |-> TRUE,
                     status |-> IF req[i].urlHasSlicktextwebhook THEN 200 ELSE 500,
                     body |-> "errorObj"]

C1_Witness ==
  /\ pc[1] = "done"
  /\ KeyMismatch(req[1])
  /\ req[1].method = "GET"
  /\ calls[1] = <<"errorEmail", "send">>
  /\ res[1].sent /\ res[1].status = 500

\* the query answered with a non-empty result and the handler post-processed it
PostProcessed(i) ==
  apiResponse[i].kind = "response" /\ TotalSize(apiResponse[i].data) > 0

Survivors(records) ==
  SelectSeq(UniqueConversions(records),
            LAMBDA r : ~MatchesGetStarted(r.URL_Details__c.str))

\* C2 as stated: the data rows of the report handed to the Notifier are the
\* records that survived deduplication and exclusion; no record whose
\* URL_Details__c matches the exclusion pattern is among them.
C2_ReportOmitsExcluded ==
  \A i \in Invocations :
    PostProcessed(i) /\ pc[i] = "awaitEmail" =>
      LET mail == outbox[i][Len(outbox[i])]
          kept == Survivors(apiResponse[i].data.records)
      IN /\ mail.kind = "report"
         /\ Tail(mail.text) = [k \in 1..Len(kept) |-> CsvRow(kept[k])]

\* kept holds exactly the first record of each Key value, in response order
KeepsFirstPer(kept, records, Key(_)) ==
  /\ \A k \in 1..Len(kept) :
       kept[k].Id \in 1..Len(records) /\ records[kept[k].Id] = kept[k]
  /\ \A k, l \in 1..Len(kept) : k < l => kept[k].Id < kept[l].Id
  /\ \A k, l \in 1..Len(kept) : k # l => Key(kept[k]) # Key(kept[l])
  /\ \A n \in 1..Len(records) :
       (\E k \in 1..Len(kept) : kept[k].Id = n)
         <=> (\A m \in 1..(n - 1) : Key(records[m]) # Key(records[n]))

\* C3 as stated: deduplication keeps exactly the first record, in response
\* order, of each distinct tracking identifier (URL_GCLID__c, the "Google
\* Click ID" column).
C3_FirstPerClickId ==
  \A i \in Invocations :
    PostProcessed(i) =>
      KeepsFirstPer(uniqueConversions[i], apiResponse[i].data.records,
                    LAMBDA r : r.URL_GCLID__c)

\* C3 amended: deduplication keeps exactly the first record, in response
\* order, of each distinct Opportunity__c value: no two kept records share an
\* Opportunity__c and the kept records are a subsequence of the response.
C3_FirstPerOpportunity ==
  \A i \in Invocations :
    PostProcessed(i) =>
      KeepsFirstPer(uniqueConversions[i], apiResponse[i].data.records,
                    LAMBDA r : r.Opportunity__c)

C3_Witness ==
  /\ PostProcessed(1)
  /\ Len(apiResponse[1].data.records) = 3
  /\ Len(uniqueConversions[1]) = 2
  /\ uniqueConversions[1][2].Id = 3

\* C4 as stated: with one invocation in flight, a run leaves the persisted
\* history unchanged or extends it by exactly its own upperBound.
C4_AppendOnly ==
  \A i \in Invocations :
    pc[i] = "done" =>
      \/ HistoryOf(store) = HistoryOf(storeAtStart[i])
      \/ HistoryOf(store) =
           Append(HistoryOf(storeAtStart[i]), nextPreviousRunDateTime[i])

\* C5 as stated: once a run has been answered with success, the persisted
\* history is non-empty and ends with the upperBound of the latest such run.
C5_LastIsLatestUpperBound ==
  lastOk.any =>
    /\ PersistedHistory # <<>>
    /\ PersistedHistory[Len(PersistedHistory)] = lastOk.upperBound

\* a later run has written to the store and has not been answered yet
WriteUnanswered ==
  \E i \in Invocations : pc[i] = "awaitWriteAck" /\ SettledAs(i, "createData", TRUE)

\* C5 amended: once a run has been answered with success, if the watermark
\* write of the latest such run succeeded then, as long as no later run has
\* written to the store, the persisted history is non-empty and ends with
\* that run's upperBound.
C5_LastIsLatestCommitted ==
  lastOk.any /\ lastOk.committed /\ ~WriteUnanswered =>
    /\ PersistedHistory # <<>>
    /\ PersistedHistory[Len(PersistedHistory)] = lastOk.upperBound

C5_Witness ==
  /\ lastOk.any /\ lastOk.committed /\ ~WriteUnanswered
  /\ Len(PersistedHistory) = 3
  /\ PersistedHistory[3] = lastOk.upperBound
  /\ PersistedHistory[2] # PersistedHistory[3]

\* C6: loading from a store without data yields exactly the seed and writes
\* nothing; until the write of the run settles the store stays without data.
C6_SeedWithoutWrite ==
  /\ [](\A i \in Invocations :
          InRun(i) /\ ~storeAtStart[i].exists /\ ~WriteSettled(i) => ~store.exists)
  /\ [][\A i \in Invocations :
          pc[i] = "awaitRead" /\ pc'[i] # "awaitRead" /\ ~store.exists =>
            /\ allRunDateTimes'[i] = <<SeedRunDateTime>>
            /\ store' = store]_vars

C6_Witness ==
  /\ pc[1] = "awaitApi"
  /\ SettledAs(1, "readData", TRUE)
  /\ ~store.exists
  /\ allRunDateTimes[1] = <<SeedRunDateTime>>

\* C7: a non-2xx answer to the token exchange or to the query aborts the
\* run: no report is sent, no watermark write is made and the store is as it
\* was; after a failed token exchange no query is issued either.
C7_UpstreamFailureAborts ==
  \A i \in Invocations :
    UpstreamFailure(i, "oauth") \/ UpstreamFailure(i, "query") =>
      /\ pc[i] \in {"awaitErrorEmail", "done"}
      /\ ~Has(calls[i], "sendEmail")
      /\ ~HasReport(outbox[i])
      /\ ~Has(calls[i], "createData")
      /\ store = storeAtStart[i]
      /\ UpstreamFailure(i, "oauth") =>
           /\ ~Has(calls[i], "query")
           /\ ~Has(calls[i], "axiosNullUrl")

C7_Witness ==
  /\ pc[1] = "done"
  /\ UpstreamFailure(1, "query")
  /\ res[1].sent /\ res[1].status = 400

\* C8 as stated: when the read of the Watermark Store raises an error the
\* run aborts: no query, no report and no watermark write.
C8_ReadFailureAborts ==
  \A i \in Invocations :
    SettledAs(i, "readData", FALSE) =>
      /\ ~Has(calls[i], "query")
      /\ ~Has(calls[i], "sendEmail")
      /\ ~Has(calls[i], "createData")
      /\ store = storeAtStart[i]

\* C9: when sending the report fails the run goes on: the write of the
\* history extended by the run's upperBound is made and the caller gets the
\* success response.
C9_EmailFailureNotFatal ==
  \A i \in Invocations :
    SettledAs(i, "sendEmail", FALSE) =>
      /\ Has(calls[i], "createData")
      /\ pc[i] \in {"awaitWrite", "awaitWriteAck", "awaitErrorEmail", "done"}
      /\ SettledAs(i, "createData", TRUE) =>
           PersistedHistory = Append(allRunDateTimes[i], nextPreviousRunDateTime[i])
      /\ pc[i] \in {"awaitErrorEmail", "done"} => res[i] = SuccessResponse

C9_Witness ==
  /\ pc[1] = "done"
  /\ SettledAs(1, "sendEmail", FALSE)
  /\ SettledAs(1, "createData", TRUE)
  /\ res[1] = SuccessResponse

\* an authorized non-OPTIONS request for another report type
Unsupported(i) ==
  /\ InRun(i)
  /\ req[i].method # "OPTIONS"
  /\ ~KeyMismatch(req[i])
  /\ req[i].requestType # "googleSearchAdsConversions"

\* C10 as stated: an authorized request for an unsupported report type does
\* the token exchange and the watermark load, makes no further outbound HTTP
\* call and sends no notification.
C10_NoFurtherCall ==
  \A i \in Invocations :
    Unsupported(i) =>
      /\ calls[i][1] = "oauth"
      /\ ~Has(calls[i], "query")
      /\ ~Has(calls[i], "axiosNullUrl")
      /\ outbox[i] = <<>>

\* C10 amended: such a run does the token exchange and, when that succeeds,
\* the watermark load; it never requests the query endpoint and never sends
\* a report.  It does call the HTTP client once more, with a null url, and
\* when that call fails the error handler sends an error e-mail and no
\* watermark write is made.
C10_NoQueryNoReport ==
  \A i \in Invocations :
    Unsupported(i) =>
      /\ calls[i][1] = "oauth"
      /\ SettledAs(i, "oauth", TRUE) /\ ~UpstreamFailure(i, "oauth") =>
           Has(calls[i], "readData")
      /\ ~Has(calls[i], "query")
      /\ ~Has(calls[i], "sendEmail")
      /\ ~HasReport(outbox[i])
      /\ SettledAs(i, "readData", TRUE) \/ SettledAs(i, "readData", FALSE) =>
           Has(calls[i], "axiosNullUrl")
      /\ SettledAs(i, "axiosNullUrl", FALSE) =>
           Has(calls[i], "errorEmail") /\ ~Has(calls[i], "createData")

C10_Witness ==
  /\ pc[1] = "done"
  /\ Unsupported(1)
  /\ SettledAs(1, "axiosNullUrl", FALSE)
  /\ Has(calls[1], "errorEmail")
  /\ res[1].status = 500

\* both invocations loaded the same history and both wrote successfully
ReadSameAndWrote ==
  /\ \A i \in Invocations :
       SettledAs(i, "readData", TRUE) /\ SettledAs(i, "createData", TRUE)
  /\ allRunDateTimes[1] = allRunDateTimes[2]

ReportOf(i) == SelectSeq(outbox[i], LAMBDA m : m.kind = "report")

\* C11: two overlapping invocations that loaded the same history H both
\* report a window starting at the last element of H, every successful write
\* replaces the stored history by the writer's own H plus its upperBound, and
\* after both have written the store holds H plus one upperBound only
\* (length |H|+1): one append is lost.
C11_LostUpdate ==
  /\ [](ReadSameAndWrote =>
          LET H == allRunDateTimes[1]
          IN /\ Len(PersistedHistory) = Len(H) + 1
             /\ PersistedHistory \in
                  {Append(H, nextPreviousRunDateTime[i]) : i \in Invocations}
             /\ \A i \in Invocations :
                  /\ Len(ReportOf(i)) = 1
                  /\ ReportOf(i)[1].lower = H[Len(H)]
                  /\ ReportOf(i)[1].upper = nextPreviousRunDateTime[i])
  /\ [][\A i \in Invocations :
          /\ pc[i] = "awaitWrite"
          /\ pc'[i] = "awaitWriteAck"
          /\ settled'[i][Len(settled'[i])].ok
          => store'.val.lastRunDateTimes =
               Append(allRunDateTimes[i], nextPreviousRunDateTime[i])]_vars

C11_Witness ==
  /\ pc[1] = "done" /\ pc[2] = "done"
  /\ ReadSameAndWrote
  /\ Len(allRunDateTimes[1]) = 2
  /\ ReportOf(1) = ReportOf(2)
  /\ Len(ReportOf(1)) = 1
  /\ Len(PersistedHistory) = 3
  /\ res[1] = SuccessResponse /\ res[2] = SuccessResponse

\* the run has loaded the history and has not been answered yet
Loaded(i) ==
  /\ pc[i] \in {"awaitApi", "awaitEmail", "awaitWrite", "awaitWriteAck"}
  /\ SettledAs(i, "readData", TRUE)

\* C12: from the history [T0] (a store without data, read as the seed) a run
\* whose write succeeds leaves [T0, T1], T1 being its upperBound; the
\* upperBound is computed from the calendar date alone; and a run that follows
\* a successful run of the same date (so computes the same T1) loads T1 as
\* lowerBound and reports a window with lowerBound = upperBound = T1.
C12_SameDayZeroWidth ==
  /\ [](\A i \in Invocations :
          /\ InRun(i) /\ ~storeAtStart[i].exists
          /\ SettledAs(i, "readData", TRUE) /\ SettledAs(i, "createData", TRUE)
          => PersistedHistory = <<SeedRunDateTime, nextPreviousRunDateTime[i]>>)
  /\ [][\A i \in Invocations :
          pc[i] = "awaitRead" /\ pc'[i] = "awaitApi" =>
            nextPreviousRunDateTime'[i] = getNextPreviousRunDateTime(DateOf(day))]_vars
  /\ [](\A i \in Invocations :
          /\ Loaded(i)
          /\ lastOk.any /\ lastOk.committed
          /\ nextPreviousRunDateTime[i] = lastOk.upperBound
          => /\ allRunDateTimes[i][Len(allRunDateTimes[i])] = lastOk.upperBound
             /\ \A k \in 1..Len(ReportOf(i)) :
                  /\ ReportOf(i)[k].lower = lastOk.upperBound
                  /\ ReportOf(i)[k].upper = lastOk.upperBound)

C12_Witness ==
  /\ pc[1] = "awaitWriteAck"
  /\ SettledAs(1, "readData", TRUE) /\ SettledAs(1, "createData", TRUE)
  /\ lastOk.any /\ lastOk.committed
  /\ storeAtStart[1].exists
  /\ storeAtStart[1].val.lastRunDateTimes = <<SeedRunDateTime, lastOk.upperBound>>
  /\ Len(ReportOf(1)) = 1
  /\ ReportOf(1)[1].lower = ReportOf(1)[1].upper
  /\ PersistedHistory = <<SeedRunDateTime, lastOk.upperBound, lastOk.upperBound>>

\* the query of the report was answered 2xx with an empty result set
EmptyResult(i) ==
  /\ InRun(i)
  /\ req[i].requestType = "googleSearchAdsConversions"
  /\ apiResponse[i].kind = "response"
  /\ TotalSize(apiResponse[i].data) = 0

\* C13: on an empty result set the one report handed to the Notifier has
\* exactly the text 'No conversions for this run' as its body, and the run
\* goes on to the watermark write: once the e-mail call has settled the write
\* of the loaded history extended by the run's upperBound is issued, and when
\* it succeeds the store holds that list.
C13_EmptyResultStillCommits ==
  \A i \in Invocations :
    EmptyResult(i) =>
      /\ Len(ReportOf(i)) = 1
      /\ ReportOf(i)[1].text = << <<"No conversions for this run">> >>
      /\ ReportOf(i)[1].lower = allRunDateTimes[i][Len(allRunDateTimes[i])]
      /\ ReportOf(i)[1].upper = nextPreviousRunDateTime[i]
      /\ pc[i] # "awaitEmail" => Has(calls[i], "createData")
      /\ SettledAs(i, "createData", TRUE) =>
           PersistedHistory = Append(allRunDateTimes[i], nextPreviousRunDateTime[i])

C13_Witness ==
  /\ pc[1] = "done"
  /\ EmptyResult(1)
  /\ ReportOf(1)[1].text = << <<"No conversions for this run">> >>
  /\ SettledAs(1, "createData", TRUE)
  /\ Len(PersistedHistory) = Len(storeAtStart[1].val.lastRunDateTimes) + 1
  /\ storeAtStart[1].exists
  /\ res[1] = SuccessResponse

\* the token exchange, the watermark load, the query and the watermark write
\* of the run all succeeded
AllSucceeded(i) ==
  /\ InRun(i)
  /\ SettledAs(i, "oauth", TRUE) /\ ~UpstreamFailure(i, "oauth")
  /\ SettledAs(i, "readData", TRUE)
  /\ SettledAs(i, "query", TRUE) /\ ~UpstreamFailure(i, "query")
  /\ SettledAs(i, "createData", TRUE)

\* C14 as stated: on a run in which authentication, watermark load, query
\* and commit all succeed the caller observes the one response 200
\* {success: true}, and the second send neither changes it nor turns the
\* run into an error: the error handler is not entered and no error e-mail
\* is sent.
C14_OneSuccessResponseNoError ==
  \A i \in Invocations :
    AllSucceeded(i) /\ pc[i] \in {"awaitErrorEmail", "done"} =>
      /\ res[i] = SuccessResponse
      /\ err[i] = NoError
      /\ ~Has(calls[i], "errorEmail")
      /\ \A k \in 1..Len(outbox[i]) : outbox[i][k].kind # "error"

\* C15 as stated: a request whose Authorization parameter does not match
\* the configured key is answered with a 4xx status.
C15_UnauthorizedIs4xx ==
  \A i \in Invocations :
    /\ pc[i] = "done"
    /\ req[i].method # "OPTIONS"
    /\ KeyMismatch(req[i])
    => res[i].sent /\ res[i].status >= 400 /\ res[i].status <= 499

\* position of the first occurrence of call in the calls of the run, 0 if none
IndexOfCall(i, call) ==
  IF Has(calls[i], call)
    THEN CHOOSE k \in 1..Len(calls[i]) :
           calls[i][k] = call /\ \A j \in 1..(k - 1) : calls[i][j] # call
    ELSE 0

ReportSettled(i) ==
  SettledAs(i, "sendEmail", TRUE) \/ SettledAs(i, "sendEmail", FALSE)

C17_PostProcessingCannotFail ==
  \A i \in Invocations :
    PostProcessed(i) =>
      /\ err[i].name # "TypeError"
      /\ Len(ReportOf(i)) = 1
      /\ pc[i] \in {"awaitErrorEmail", "done"} => Has(calls[i], "createData")

IsDigit(c) == \E k \in 1..Len(DigitChars) : DigitChars[k] = c

\* YYYY-MM-DDThh:mm:ss.sssZ, the shape of the seed
IsoShape(ts) ==
  /\ Len(ts) = 24
  /\ \A k \in {1, 2, 3, 4, 6, 7, 9, 10, 12, 13, 15, 16, 18, 19, 21, 22, 23} :
       IsDigit(ts[k])
  /\ ts[5] = "-" /\ ts[8] = "-" /\ ts[11] = "T"
  /\ ts[14] = ":" /\ ts[17] = ":" /\ ts[20] = "." /\ ts[24] = "Z"

\* C18 as stated: whatever the calendar date of the run, the computed
\* upperBound has the fixed-width shape YYYY-MM-DDT00:00:00.000Z, so every
\* element of the persisted history has the shape of the seed.
C18_FixedWidthTimestamps ==
  /\ \A i \in Invocations :
       nextPreviousRunDateTime[i] # <<>> =>
         /\ IsoShape(nextPreviousRunDateTime[i])
         /\ SubSeq(nextPreviousRunDateTime[i], 11, 24) = MidnightSuffix
  /\ \A k \in 1..Len(PersistedHistory) : IsoShape(PersistedHistory[k])

====
